---- MODULE Spec2Model ----
(***************************************************************************)
(* ogg-metadata: read_format and its helpers (src/src/lib.rs,              *)
(* src/src/vorbis.rs, src/src/opus.rs, src/src/theora.rs).                 *)
(*                                                                         *)
(* The packet source (ogg::PacketReader) is the environment.  The content  *)
(* of a packet is chosen when the packet is read, and the byte layout of   *)
(* the physical stream (how many packets, the size of each) when the       *)
(* program seeks, consistent with the packets read before.  The first      *)
(* packet is kept (the program keeps it too), so reading index 1 again     *)
(* after a seek returns the same packet; other packets read again after a  *)
(* seek are chosen anew, which allows every real behaviour.                *)
(***************************************************************************)
EXTENDS Integers, Sequences, FiniteSets, TLC

(***************************************************************************)
(* Bounds of the model.                                                    *)
(***************************************************************************)
\* most packets in the physical stream
MaxPackets == 4
\* logical stream serial numbers are 1..MaxSerial
MaxSerial == 3

(***************************************************************************)
(* Option<T> and Result<T, OggMetadataError>.                              *)
(***************************************************************************)
None == <<>>
Some(v) == <<v>>
IsSome(o) == o # <<>>
Unwrap(o) == o[1]

Ok(v) == [ok |-> TRUE, val |-> v]
Err(e) == [ok |-> FALSE, err |-> e]

\* OggMetadataError, lib.rs:86-91
UnrecognizedFormat == "UnrecognizedFormat"
ReadError == "ReadError"

Min(a, b) == IF a < b THEN a ELSE b

(***************************************************************************)
(* u64 values are four 16-bit limbs, most significant first, so that the   *)
(* 64-bit width of a subtraction is kept.                                  *)
(***************************************************************************)
Limb == 65536

U64(n) == <<0, 0, n \div Limb, n % Limb>>

\* a - b on u64, b a u16 widened to u64 (`l - (ident_hdr.pre_skip as u64)`):
\* the wrapped difference and whether the subtraction overflowed.
U64SubU16(a, b) ==
    LET d4 == a[4] - b
        c4 == IF d4 < 0 THEN 1 ELSE 0
        d3 == a[3] - c4
        c3 == IF d3 < 0 THEN 1 ELSE 0
        d2 == a[2] - c3
        c2 == IF d2 < 0 THEN 1 ELSE 0
        d1 == a[1] - c2
        c1 == IF d1 < 0 THEN 1 ELSE 0
    IN  [val |-> <<d1 + c1 * Limb, d2 + c2 * Limb, d3 + c3 * Limb, d4 + c4 * Limb>>,
         overflow |-> c1 = 1]

(***************************************************************************)
(* Magic sequences and identify_packet_data_by_magic.                      *)
(***************************************************************************)
vorbis_magic == <<1, 118, 111, 114, 98, 105, 115>>
opus_magic == <<79, 112, 117, 115, 72, 101, 97, 100>>
theora_magic == <<128, 116, 104, 101, 111, 114, 97>>
speex_magic == <<83, 112, 101, 101, 120, 32, 32, 32>>
skeleton_magic == <<102, 105, 115, 104, 101, 97, 100, 0>>

StartsWith(d, m) == Len(d) >= Len(m) /\ SubSeq(d, 1, Len(m)) = m

\* mutant: only the first byte is compared
identify_by_first_byte(pck_data) ==
    IF Len(pck_data) < 1 THEN None
    ELSE IF pck_data[1] = 1 THEN Some(<<Len(vorbis_magic), "Vorbis">>)
    ELSE IF pck_data[1] = 79 THEN Some(<<Len(opus_magic), "Opus">>)
    ELSE IF pck_data[1] = 128 THEN Some(<<Len(theora_magic), "Theora">>)
    ELSE IF pck_data[1] = 83 THEN Some(<<Len(speex_magic), "Speex">>)
    ELSE IF pck_data[1] = 102 THEN Some(<<Len(speex_magic), "Skeleton">>)
    ELSE None

\* mutant: the Skeleton arm returns the length of a 7-byte magic
identify_skeleton_short_offset(pck_data) ==
    IF Len(pck_data) < 1 THEN None
    ELSE IF StartsWith(pck_data, vorbis_magic) THEN Some(<<Len(vorbis_magic), "Vorbis">>)
    ELSE IF StartsWith(pck_data, opus_magic) THEN Some(<<Len(opus_magic), "Opus">>)
    ELSE IF StartsWith(pck_data, theora_magic) THEN Some(<<Len(theora_magic), "Theora">>)
    ELSE IF StartsWith(pck_data, speex_magic) THEN Some(<<Len(speex_magic), "Speex">>)
    ELSE IF StartsWith(pck_data, skeleton_magic)
         THEN Some(<<Len(theora_magic), "Skeleton">>)
    ELSE None

\* Option<(usize, BareOggFormat)>
identify_packet_data_by_magic(pck_data) ==
    IF Len(pck_data) < 1 THEN None
    ELSE IF pck_data[1] = 1 /\ StartsWith(pck_data, vorbis_magic)
         THEN Some(<<Len(vorbis_magic), "Vorbis">>)
    ELSE IF pck_data[1] = 79 /\ StartsWith(pck_data, opus_magic)
         THEN Some(<<Len(opus_magic), "Opus">>)
    ELSE IF pck_data[1] = 128 /\ StartsWith(pck_data, theora_magic)
         THEN Some(<<Len(theora_magic), "Theora">>)
    ELSE IF pck_data[1] = 83 /\ StartsWith(pck_data, speex_magic)
         THEN Some(<<Len(speex_magic), "Speex">>)
    ELSE IF pck_data[1] = 102 /\ StartsWith(pck_data, skeleton_magic)
         THEN Some(<<Len(speex_magic), "Skeleton">>)
    ELSE None

needs_last_packet_absgp(bare_format) ==
    CASE bare_format = "Vorbis" -> TRUE
      [] bare_format = "Opus" -> TRUE
      [] bare_format = "Theora" -> FALSE
      [] bare_format = "Speex" -> FALSE
      [] bare_format = "Skeleton" -> FALSE

\* &pck.data[n..]
SliceFrom(d, n) == SubSeq(d, n + 1, Len(d))

(***************************************************************************)
(* Header parsers.  A read past the end of the payload is an io::Error,    *)
(* which try! turns into ReadError.                                        *)
(***************************************************************************)
\* mutant: the two bytes are read most significant first
BE16(p, i) == 256 * p[i] + p[i + 1]

LE16(p, i) == p[i] + 256 * p[i + 1]

\* mutant: the four bytes are read most significant first
BE32(p, i) == 16777216 * p[i] + 65536 * p[i + 1] + 256 * p[i + 2] + p[i + 3]

LE32(p, i) == p[i] + 256 * p[i + 1] + 65536 * p[i + 2] + 16777216 * p[i + 3]
BE24(p, i) == 65536 * p[i] + 256 * p[i + 1] + p[i + 2]

\* mutant: the whole header is read before the version is looked at
vorbis_header_length_first(packet) ==
    IF Len(packet) < 9 THEN Err(ReadError)
    ELSE IF LE32(packet, 1) # 0 THEN Err(UnrecognizedFormat)
    ELSE Ok([channels |-> packet[5], sample_rate |-> LE32(packet, 6)])

vorbis_read_header_ident(packet) ==
    IF Len(packet) < 4 THEN Err(ReadError)
    ELSE IF LE32(packet, 1) # 0 THEN Err(UnrecognizedFormat)
    ELSE IF Len(packet) < 5 THEN Err(ReadError)
    ELSE IF Len(packet) < 9 THEN Err(ReadError)
    ELSE Ok([channels |-> packet[5], sample_rate |-> LE32(packet, 6)])

opus_read_header_ident(packet) ==
    IF Len(packet) < 1 THEN Err(ReadError)
    ELSE IF packet[1] >= 16 THEN Err(UnrecognizedFormat)
    ELSE IF Len(packet) < 2 THEN Err(ReadError)
    ELSE IF Len(packet) < 4 THEN Err(ReadError)
    ELSE Ok([output_channels |-> packet[2], pre_skip |-> LE16(packet, 3)])

theora_read_header_ident(packet) ==
    IF Len(packet) < 13 THEN Err(ReadError)
    ELSE Ok([picture_region_width |-> BE24(packet, 8),
             picture_region_height |-> BE24(packet, 11)])

(***************************************************************************)
(* parse_format.  last_packet_absgp is an Option<u64>.  The Opus branch    *)
(* subtracts pre_skip with the plain `-` of u64: on overflow the build     *)
(* with overflow checks panics and the build without them wraps.           *)
(***************************************************************************)
Panic == [ok |-> FALSE, err |-> "panic"]

\* mutant: the length is dropped
opus_length_absent(last_packet_absgp, pre_skip, overflow_checks) == Ok(None)

\* mutant: pre_skip is not subtracted
opus_length_noskip(last_packet_absgp, pre_skip, overflow_checks) ==
    Ok(last_packet_absgp)

\* lib.rs:213-214
opus_length(last_packet_absgp, pre_skip, overflow_checks) ==
    IF ~IsSome(last_packet_absgp) THEN Ok(None)
    ELSE LET d == U64SubU16(Unwrap(last_packet_absgp), pre_skip)
         IN  IF d.overflow /\ overflow_checks THEN Panic
             ELSE Ok(Some(d.val))

parse_format(pck_data, bare_format, last_packet_absgp, overflow_checks) ==
    CASE bare_format = "Vorbis" ->
           LET ident_hdr == vorbis_read_header_ident(pck_data)
           IN  IF ~ident_hdr.ok THEN ident_hdr
               ELSE Ok([fmt |-> "Vorbis",
                        channels |-> ident_hdr.val.channels,
                        sample_rate |-> ident_hdr.val.sample_rate,
                        length_in_samples |-> last_packet_absgp])
      [] bare_format = "Opus" ->
           LET ident_hdr == opus_read_header_ident(pck_data)
           IN  IF ~ident_hdr.ok THEN ident_hdr
               ELSE LET len == opus_length(last_packet_absgp,
                                           ident_hdr.val.pre_skip, overflow_checks)
                    IN  IF ~len.ok THEN len
                        ELSE Ok([fmt |-> "Opus",
                                 output_channels |-> ident_hdr.val.output_channels,
                                 length_in_48khz_samples |-> len.val])
      [] bare_format = "Theora" ->
           LET ident_hdr == theora_read_header_ident(pck_data)
           IN  IF ~ident_hdr.ok THEN ident_hdr
               ELSE Ok([fmt |-> "Theora",
                        pixels_width |-> ident_hdr.val.picture_region_width,
                        pixels_height |-> ident_hdr.val.picture_region_height])
      [] bare_format = "Speex" -> Ok([fmt |-> "Speex"])
      [] bare_format = "Skeleton" -> Ok([fmt |-> "Skeleton"])

Unknown == [fmt |-> "Unknown"]

(***************************************************************************)
(* seek_before_end: the absolute position the second seek returns.         *)
(***************************************************************************)
\* mutant: the offset is taken from the start of the source
seek_from_start_pos(end_pos, offs) == Min(end_pos, offs)

seek_before_end_pos(end_pos, offs) ==
    LET end_pos_to_seek == Min(end_pos, offs)
    IN  end_pos - end_pos_to_seek

SingleWindow == 150 * 1024
SkeletonWindow == 200 * 1024

(***************************************************************************)
(* The packet source.                                                      *)
(***************************************************************************)
Serials == 1..MaxSerial

\* absgp_page values of the pages (u64)
GranulePositions == {U64(100), U64(48312)}

\* byte sizes a packet (with its page) takes in the physical stream
PageSizes == {4500, 65307}

\* payloads: magics followed by identification headers, and others
VorbisOk == vorbis_magic \o <<0, 0, 0, 0, 2, 68, 172, 0, 0>>
OpusOk == opus_magic \o <<1, 2, 56, 1>>
OpusBadVersion == opus_magic \o <<16, 2, 56, 1>>
OpusShort == opus_magic \o <<1, 2>>
TheoraOk == theora_magic \o <<3, 2, 1, 0, 40, 0, 30, 0, 2, 128, 0, 1, 224>>
SpeexOk == speex_magic
SkeletonOk == skeleton_magic
NoMagic == <<79, 103, 103>>
Empty == <<>>

Payloads == {VorbisOk, OpusOk, OpusBadVersion, OpusShort, TheoraOk, SpeexOk,
             SkeletonOk, NoMagic, Empty}

\* ogg::Packet, the fields read_format reads
Packets == [stream_serial : Serials, first_packet : BOOLEAN, last_packet : BOOLEAN,
            absgp_page : GranulePositions, data : Payloads]

\* the physical stream: the byte size of each of its packets
Layouts == UNION {[1..n -> PageSizes] : n \in 0..MaxPackets}

RECURSIVE SumSizes(_, _)
SumSizes(sz, k) == IF k = 0 THEN 0 ELSE sz[k] + SumSizes(sz, k - 1)

\* byte offset at which packet i of layout sz starts
OffsetOf(sz, i) == SumSizes(sz, i - 1)

\* seek_bytes(SeekFrom::End(0))
EndPos(sz) == SumSizes(sz, Len(sz))

\* the packet the reader returns next once positioned at byte b: the first
\* one that starts at or after b
PosAt(sz, b) ==
    IF \E i \in 1..Len(sz) : OffsetOf(sz, i) >= b
    THEN CHOOSE i \in 1..Len(sz) :
           /\ OffsetOf(sz, i) >= b
           /\ \A j \in 1..(i - 1) : OffsetOf(sz, j) < b
    ELSE Len(sz) + 1

VARIABLES
    pc,                 \* where read_format is
    overflow_checks,    \* Option: whether the build panics on integer overflow,
                        \* known once a subtraction has overflowed
    num_packets,        \* Option: packets in the physical stream, known once sought
    pos,                \* index of the next packet the reader returns
    pck,                \* Option: the first packet (`pck`, lib.rs:248)
    id_inner,           \* Option: (offset, format) of the first packet
    scan_pck,           \* Option: `pck` of get_absgp_of_last_packet at its return
    last_packet_absgp,  \* Option<u64>, lib.rs:258
    res,                \* Vec<OggFormat>
    streams,            \* HashMap: serial -> Option (id_inner, data of the packet)
    result,             \* Option: what read_format returned
    seeks,              \* history: calls of seek_before_end so far
    io_err,             \* history: Option, the first failed seek or read
    recorded,           \* history: `streams` as it was when the collect loop ended
    tail_last,          \* history: recorded serials whose last-flagged packet the
                        \* tail scan read
    prov,               \* history, parallel to res: where each entry comes from
    unmatched,          \* history: first packets without a magic the collect
                        \* loop has read
    collect_end,        \* history: Option, the packet the collect loop broke at
    tail_order,         \* history: the recorded last-flagged packets the tail
                        \* scan has read, in the order read
    fn_call,            \* Option: a helper called on its own, and its argument
    fn_ret              \* Option: what that call returned

vars == <<pc, overflow_checks, num_packets, pos, pck, id_inner, scan_pck,
          last_packet_absgp, res, streams, result, seeks, io_err, recorded,
          tail_last, prov, unmatched, collect_end, tail_order, fn_call, fn_ret>>

\* the variables of a helper called on its own
call_vars == <<fn_call, fn_ret>>

\* the variables of read_format
main_vars == <<pc, overflow_checks, num_packets, pos, pck, id_inner, scan_pck,
               last_packet_absgp, res, streams, result, seeks, io_err, recorded,
               tail_last, prov, unmatched, collect_end, tail_order>>

\* the fields of the first packet that are ever read again
Kept(p) == [stream_serial |-> p.stream_serial, last_packet |-> p.last_packet,
            absgp_page |-> p.absgp_page, data |-> p.data]

\* whether the source holds a packet at pos
HasPacket == IF IsSome(num_packets) THEN pos <= Unwrap(num_packets)
             ELSE pos <= MaxPackets

\* Serial numbers are only compared with each other: the first packet's is 1.
FirstSerial == 1

\* the packets the source may hold at index i
PacketsAt(i) == IF i = 1 THEN {p \in Packets : p.stream_serial = FirstSerial}
                ELSE Packets

\* read_packet_expected: at the end of the stream an io::Error; else an error
\* of the source (an io::Error or a malformed page), or the packet at pos
ReadOutcomes ==
    IF ~HasPacket THEN {Err(ReadError)}
    ELSE {Err(ReadError), Err(UnrecognizedFormat)} \cup
    (IF pos = 1 /\ IsSome(pck)
     THEN {Ok(p) : p \in {q \in PacketsAt(1) : Kept(q) = Unwrap(pck)}}
     ELSE {Ok(p) : p \in PacketsAt(pos)})

\* seek_before_end(pck_rdr, offs): an io::Error of either seek_bytes call, or
\* the packet count and the index of the packet at the new position
SeekOutcomes(offs) ==
    {Err(ReadError)} \cup
    {Ok([num_packets |-> Len(sz),
         pos |-> PosAt(sz, seek_before_end_pos(EndPos(sz), offs))]) :
       sz \in {l \in Layouts : Len(l) >= pos - 1}}

StreamEntries == {s \in Serials : IsSome(streams[s])}

Init ==
    /\ pc = "start"
    /\ overflow_checks = None
    /\ num_packets = None
    /\ pos = 1
    /\ pck = None
    /\ id_inner = None
    /\ scan_pck = None
    /\ last_packet_absgp = None
    /\ res = <<>>
    /\ streams = [s \in Serials |-> None]
    /\ result = None
    /\ seeks = 0
    /\ io_err = None
    /\ recorded = [s \in Serials |-> None]
    /\ tail_last = {}
    /\ prov = <<>>
    /\ unmatched = 0
    /\ collect_end = None
    /\ tail_order = <<>>
    /\ fn_call = None
    /\ fn_ret = None

\* whether parse_format overflows on these arguments
Overflows(pck_data, bare_format, absgp) ==
    parse_format(pck_data, bare_format, absgp, TRUE) = Panic

\* the builds the run may be a run of, as far as this call of parse_format
\* can tell: an overflow tells which build it is
Builds(pck_data, bare_format, absgp) ==
    IF IsSome(overflow_checks) THEN {Unwrap(overflow_checks)}
    ELSE IF Overflows(pck_data, bare_format, absgp) THEN BOOLEAN
    ELSE {FALSE}

Built(pck_data, bare_format, absgp, oc) ==
    overflow_checks' = IF Overflows(pck_data, bare_format, absgp)
                       THEN Some(oc) ELSE overflow_checks

\* the fields of the packet get_absgp_of_last_packet stops at that are read
Scanned(p) == [stream_serial |-> p.stream_serial, last_packet |-> p.last_packet,
               absgp_page |-> p.absgp_page]

\* `return r` out of read_format
Return(r) == /\ result' = Some(r)
             /\ pc' = "done"

\* history: the first failed seek or read, with `res` and the serials in
\* `streams` of that moment
Failed(op) ==
    io_err' = IF IsSome(io_err) THEN io_err
              ELSE Some([at |-> pc, op |-> op, res |-> res, pending |-> StreamEntries])

\* mutant: the error is swallowed and the length left absent
SingleFailedSoft(r) == /\ pc' = "parse_first"
                       /\ UNCHANGED result

\* try! around seek_before_end and read_packet_expected, lib.rs:145-149
SingleFailed(r) == Return(r)

\* mutant: the loop stops at the first packet read
ScanStopsAlways(p) == TRUE

\* `while !pck.last_packet`, lib.rs:148
ScanStops(p) == p.last_packet

\* mutant: try! in place of pseudo_try!
TailReadTry(r) == Return(r)

\* pseudo_try!, lib.rs:319-324: break 'pseudo_return
TailReadFailed(r) == /\ pc' = "leftovers"
                     /\ UNCHANGED result

\* mutant: the packet's serial is not used, some recorded stream is taken
TailKeyAny(pck_cur) == IF StreamEntries = {} THEN pck_cur.stream_serial
                       ELSE CHOOSE s \in StreamEntries : TRUE

\* the key of `streams.remove(&pck_cur.stream_serial)`, lib.rs:345
TailKey(pck_cur) == pck_cur.stream_serial

\* mutant: a stream left over gets a granule position
leftover_absgp_zero == Some(U64(0))

\* the absgp parse_format gets for a stream left over, lib.rs:362
leftover_absgp == None

\* mutant: the entry is put in front
PushFront(v, e) == <<e>> \o v

\* Vec::push
Push(v, e) == Append(v, e)

\* mutant: the stream stays in the map
RemoveNothing(map, key) == map

\* HashMap::remove, lib.rs:345
Remove(map, key) == [map EXCEPT ![key] = None]

\* mutant: a stream whose header does not parse is skipped
ParseFailedSkipped(st, next) == /\ pc' = next
                                /\ UNCHANGED result

\* try! around parse_format at the finalization of a recorded stream,
\* lib.rs:352 and lib.rs:361
ParseFailed(st, next) == Return(st)

\* mutant: the last packet of any stream ends the collect loop
CollectStopsAnyLast(first, pck_cur) == pck_cur.last_packet

\* the `break` of the collect loop, lib.rs:276 and lib.rs:292-294
CollectStops(first, pck_cur) ==
    /\ pck_cur.stream_serial = first.stream_serial
    /\ pck_cur.last_packet

\* the fields of a packet of the collect loop that decide whether it breaks
Ended(p) == [stream_serial |-> p.stream_serial, last_packet |-> p.last_packet]

Prov(serial, phase, src) == [serial |-> serial, phase |-> phase, src |-> src]

\* lib.rs:248-262
ReadFirst ==
    /\ pc = "start"
    /\ \E r \in ReadOutcomes :
         IF ~r.ok
         THEN /\ Return(r)
              /\ Failed("read")
              /\ UNCHANGED <<pos, pck, id_inner, res, prov>>
         ELSE LET id == identify_packet_data_by_magic(r.val.data)
              IN  /\ pck' = Some(Kept(r.val))
                  /\ pos' = pos + 1
                  /\ UNCHANGED io_err
                  /\ IF ~IsSome(id)
                     THEN /\ Return(Ok(<<Unknown>>))
                          /\ UNCHANGED <<id_inner, res, prov>>
                     ELSE /\ id_inner' = id
                          /\ pc' = IF needs_last_packet_absgp(Unwrap(id)[2])
                                   THEN "single_seek" ELSE "parse_first"
                          /\ UNCHANGED <<result, res, prov>>
    /\ UNCHANGED <<overflow_checks, num_packets, scan_pck, last_packet_absgp,
                   streams, seeks, recorded, tail_last>>
    /\ UNCHANGED <<unmatched, collect_end, tail_order, call_vars>>

\* get_absgp_of_last_packet, lib.rs:145 (called at lib.rs:259)
SingleSeek ==
    /\ pc = "single_seek"
    /\ seeks' = seeks + 1
    /\ \E r \in SeekOutcomes(SingleWindow) :
         IF ~r.ok
         THEN /\ SingleFailed(r)
              /\ Failed("seek")
              /\ UNCHANGED <<num_packets, pos>>
         ELSE /\ num_packets' = Some(r.val.num_packets)
              /\ pos' = r.val.pos
              /\ pc' = "single_scan"
              /\ UNCHANGED <<result, io_err>>
    /\ UNCHANGED <<overflow_checks, pck, id_inner, scan_pck, last_packet_absgp,
                   res, streams, recorded, tail_last, prov>>
    /\ UNCHANGED <<unmatched, collect_end, tail_order, call_vars>>

\* get_absgp_of_last_packet, lib.rs:146-151: one read_packet_expected
SingleScan ==
    /\ pc = "single_scan"
    /\ \E r \in ReadOutcomes :
         IF ~r.ok
         THEN /\ SingleFailed(r)
              /\ Failed("read")
              /\ UNCHANGED <<pos, scan_pck, last_packet_absgp>>
         ELSE /\ pos' = pos + 1
              /\ scan_pck' = Some(Scanned(r.val))
              /\ UNCHANGED <<result, io_err>>
              /\ IF ScanStops(r.val)
                 THEN /\ last_packet_absgp' = Some(r.val.absgp_page)
                      /\ pc' = "parse_first"
                 ELSE /\ pc' = "single_scan"
                      /\ UNCHANGED last_packet_absgp
    /\ UNCHANGED <<overflow_checks, num_packets, pck, id_inner, res, streams,
                   seeks, recorded, tail_last, prov>>
    /\ UNCHANGED <<unmatched, collect_end, tail_order, call_vars>>

\* lib.rs:264-267, and the return at lib.rs:367 when the first packet is no
\* Skeleton header
ParseFirst ==
    /\ pc = "parse_first"
    /\ \E oc \in Builds(SliceFrom(Unwrap(pck).data, Unwrap(id_inner)[1]),
                          Unwrap(id_inner)[2], last_packet_absgp) :
         LET first == Unwrap(pck)
             id == Unwrap(id_inner)
             hdr == SliceFrom(first.data, id[1])
             st == parse_format(hdr, id[2], last_packet_absgp, oc)
         IN  /\ Built(hdr, id[2], last_packet_absgp, oc)
             /\ IF st = Panic
                THEN /\ pc' = "panicked"
                     /\ UNCHANGED <<res, prov, result>>
                ELSE IF ~st.ok
                THEN /\ Return(st)
                     /\ UNCHANGED <<res, prov>>
                ELSE /\ res' = Push(res, st.val)
                     /\ prov' = Append(prov, Prov(first.stream_serial, "first",
                                   IF IsSome(last_packet_absgp) THEN scan_pck ELSE None))
                     /\ IF id[2] = "Skeleton"
                        THEN /\ pc' = "collect"
                             /\ UNCHANGED result
                        ELSE Return(Ok(res'))
    /\ UNCHANGED <<num_packets, pos, pck, id_inner, scan_pck,
                   last_packet_absgp, streams, seeks, io_err, recorded, tail_last>>
    /\ UNCHANGED <<unmatched, collect_end, tail_order, call_vars>>

\* lib.rs:273-306: one iteration of the collect loop
Collect ==
    /\ pc = "collect"
    /\ \E r \in ReadOutcomes :
         IF ~r.ok
         THEN /\ Return(r)
              /\ Failed("read")
              /\ UNCHANGED <<pos, res, prov, streams, recorded, unmatched,
                             collect_end>>
         ELSE LET pck_cur == r.val
                  id == identify_packet_data_by_magic(pck_cur.data)
              IN  /\ pos' = pos + 1
                  /\ UNCHANGED <<result, io_err>>
                  /\ IF CollectStops(Unwrap(pck), pck_cur)
                     THEN /\ pc' = "skel_seek"
                          /\ recorded' = streams
                          /\ collect_end' = Some(Ended(pck_cur))
                          /\ UNCHANGED <<res, prov, streams, unmatched>>
                     ELSE /\ pc' = "collect"
                          /\ UNCHANGED <<recorded, collect_end>>
                          /\ IF ~pck_cur.first_packet
                             THEN UNCHANGED <<res, prov, streams, unmatched>>
                             ELSE IF ~IsSome(id)
                             THEN /\ res' = Push(res, Unknown)
                                  /\ prov' = Append(prov,
                                       Prov(pck_cur.stream_serial, "unknown", None))
                                  /\ unmatched' = unmatched + 1
                                  /\ UNCHANGED streams
                             ELSE /\ streams' = [streams EXCEPT
                                       ![pck_cur.stream_serial] =
                                          Some([id_inner |-> Unwrap(id),
                                                data |-> pck_cur.data])]
                                  /\ UNCHANGED <<res, prov, unmatched>>
    /\ UNCHANGED <<overflow_checks, num_packets, pck, id_inner, scan_pck,
                   last_packet_absgp, seeks, tail_last, tail_order, call_vars>>

\* lib.rs:311
SkelSeek ==
    /\ pc = "skel_seek"
    /\ seeks' = seeks + 1
    /\ \E r \in SeekOutcomes(SkeletonWindow) :
         IF ~r.ok
         THEN /\ Return(r)
              /\ Failed("seek")
              /\ UNCHANGED <<num_packets, pos>>
         ELSE /\ num_packets' = Some(r.val.num_packets)
              /\ pos' = r.val.pos
              /\ pc' = "tail_scan"
              /\ UNCHANGED <<result, io_err>>
    /\ UNCHANGED <<overflow_checks, pck, id_inner, scan_pck, last_packet_absgp,
                   res, streams, recorded, tail_last, prov>>
    /\ UNCHANGED <<unmatched, collect_end, tail_order, call_vars>>

\* lib.rs:328-356: one test of `!streams.is_empty()` and, when it holds, one
\* iteration of the tail scan
TailScan ==
    /\ pc = "tail_scan"
    /\ IF StreamEntries = {}
       THEN /\ pc' = "leftovers"
            /\ UNCHANGED <<pos, res, prov, streams, result, io_err, tail_last,
                           overflow_checks, tail_order>>
       ELSE \E r \in ReadOutcomes :
         IF ~r.ok
         THEN \* pseudo_try!: break 'pseudo_return
              /\ TailReadFailed(r)
              /\ Failed("read")
              /\ UNCHANGED <<pos, res, prov, streams, tail_last,
                             overflow_checks, tail_order>>
         ELSE IF ~r.val.last_packet \/ ~IsSome(streams[TailKey(r.val)])
         THEN \* `continue`
              /\ pos' = pos + 1
              /\ pc' = "tail_scan"
              /\ UNCHANGED <<res, prov, streams, result, io_err, tail_last,
                             overflow_checks, tail_order>>
         ELSE LET pck_cur == r.val
                  key == TailKey(pck_cur)
                  stream == Unwrap(streams[key])
                  hdr == SliceFrom(stream.data, stream.id_inner[1])
                  absgp == Some(pck_cur.absgp_page)
              IN  /\ pos' = pos + 1
                  /\ UNCHANGED io_err
                  /\ streams' = Remove(streams, key)
                  /\ tail_last' = tail_last \cup {key}
                  /\ tail_order' = Append(tail_order, Scanned(pck_cur))
                  /\ IF stream.id_inner[2] = "Skeleton"
                     THEN /\ Return(Err(UnrecognizedFormat))
                          /\ UNCHANGED <<res, prov, overflow_checks>>
                     ELSE \E oc \in Builds(hdr, stream.id_inner[2], absgp) :
                       LET st == parse_format(hdr, stream.id_inner[2], absgp, oc)
                       IN  /\ Built(hdr, stream.id_inner[2], absgp, oc)
                           /\ IF st = Panic
                              THEN /\ pc' = "panicked"
                                   /\ UNCHANGED <<res, prov, result>>
                              ELSE IF ~st.ok
                              THEN /\ ParseFailed(st, "tail_scan")
                                   /\ UNCHANGED <<res, prov>>
                              ELSE /\ res' = Push(res, st.val)
                                   /\ prov' = Append(prov,
                                        Prov(key, "tail",
                                             Some(Scanned(pck_cur))))
                                   /\ pc' = "tail_scan"
                                   /\ UNCHANGED result
    /\ UNCHANGED <<num_packets, pck, id_inner, scan_pck,
                   last_packet_absgp, seeks, recorded>>
    /\ UNCHANGED <<unmatched, collect_end, call_vars>>

\* lib.rs:360-367: one step of the iteration over the streams left, in the
\* order of the HashMap (any), or the return once it is over.  A stream
\* visited is taken out of `streams`, which is not read again.
Leftovers ==
    /\ pc = "leftovers"
    /\ IF StreamEntries = {}
       THEN /\ Return(Ok(res))
            /\ UNCHANGED <<res, prov, streams>>
       ELSE \E s \in StreamEntries :
         LET stream == Unwrap(streams[s])
             st == parse_format(SliceFrom(stream.data, stream.id_inner[1]),
                                stream.id_inner[2], leftover_absgp, FALSE)
         IN  /\ streams' = [streams EXCEPT ![s] = None]
             /\ IF ~st.ok
                THEN /\ ParseFailed(st, "leftovers")
                     /\ UNCHANGED <<res, prov>>
                ELSE /\ res' = Push(res, st.val)
                     /\ prov' = Append(prov, Prov(s, "leftover", None))
                     /\ pc' = "leftovers"
                     /\ UNCHANGED result
    /\ UNCHANGED <<overflow_checks, num_packets, pos, pck, id_inner, scan_pck,
                   last_packet_absgp, seeks, io_err, recorded, tail_last>>
    /\ UNCHANGED <<unmatched, collect_end, tail_order, call_vars>>

Next ==
    \/ ReadFirst
    \/ SingleSeek
    \/ SingleScan
    \/ ParseFirst
    \/ Collect
    \/ SkelSeek
    \/ TailScan
    \/ Leftovers

Spec == Init /\ [][Next]_vars

\* read_format runs on: a step that can be taken is taken
FairSpec == Spec /\ WF_vars(Next)

(***************************************************************************)
(* The helpers called on their own: identify_packet_data_by_magic, the     *)
(* three header parsers and seek_before_end, each on an argument drawn     *)
(* from a set of inputs.                                                   *)
(***************************************************************************)
\* every prefix of every sequence of S
Prefixes(S) == UNION {{SubSeq(d, 1, k) : k \in 0..Len(d)} : d \in S}

\* d with its byte at j replaced by another one
Changed(d, j) == [d EXCEPT ![j] = (d[j] + 1) % 256]

AllMagics == {vorbis_magic, opus_magic, theora_magic, speex_magic, skeleton_magic}

\* payloads for identify_packet_data_by_magic: the magics, their prefixes, the
\* magics with one byte changed, with bytes after them, and the payloads of
\* the packet source
IdentifyInputs ==
    Prefixes(AllMagics)
    \cup {Changed(m, j) : m \in AllMagics, j \in 1..7}
    \cup {m \o <<b>> : m \in AllMagics, b \in {0, 1, 102}}
    \cup Payloads

\* payloads for vorbis::read_header_ident: version, channels, sample rate
VorbisHeaders ==
    {v \o <<c>> \o r : v \in {<<0, 0, 0, 0>>, <<1, 0, 0, 0>>, <<0, 0, 0, 1>>},
                       c \in {1, 2},
                       r \in {<<68, 172, 0, 0>>, <<128, 187, 0, 0>>}}

VorbisInputs == Prefixes(VorbisHeaders) \cup {h \o <<0>> : h \in VorbisHeaders}

\* payloads for opus::read_header_ident: version, channels, pre_skip
OpusHeaders ==
    {<<v, c>> \o ps : v \in {0, 1, 15, 16, 255}, c \in {1, 2, 255},
                      ps \in {<<56, 1>>, <<1, 56>>, <<255, 255>>}}

OpusInputs == Prefixes(OpusHeaders) \cup {h \o <<0>> : h \in OpusHeaders}

\* payloads for theora::read_header_ident
TheoraHeaders ==
    {SliceFrom(TheoraOk, Len(theora_magic)),
     <<255, 255, 255, 0, 40, 0, 30, 1, 2, 3, 4, 5, 6>>}

TheoraInputs == Prefixes(TheoraHeaders) \cup {h \o <<0>> : h \in TheoraHeaders}

\* lengths in bytes of the source for seek_before_end: those of the layouts,
\* and the lengths around the two windows
SourceLengths ==
    {EndPos(sz) : sz \in Layouts}
    \cup {1, SingleWindow - 1, SingleWindow, SingleWindow + 1,
          SkeletonWindow - 1, SkeletonWindow, SkeletonWindow + 1}

Call(fn, arg) == [fn |-> fn, arg |-> arg]

Calls ==
    {Call("identify_packet_data_by_magic", d) : d \in IdentifyInputs}
    \cup {Call("vorbis::read_header_ident", d) : d \in VorbisInputs}
    \cup {Call("opus::read_header_ident", d) : d \in OpusInputs}
    \cup {Call("theora::read_header_ident", d) : d \in TheoraInputs}
    \cup {Call("get_absgp_of_last_packet:seek_before_end", l) : l \in SourceLengths}
    \cup {Call("read_format:seek_before_end", l) : l \in SourceLengths}

CallInit ==
    /\ pc = "helper"
    /\ overflow_checks = None
    /\ num_packets = None
    /\ pos = 1
    /\ pck = None
    /\ id_inner = None
    /\ scan_pck = None
    /\ last_packet_absgp = None
    /\ res = <<>>
    /\ streams = [s \in Serials |-> None]
    /\ result = None
    /\ seeks = 0
    /\ io_err = None
    /\ recorded = [s \in Serials |-> None]
    /\ tail_last = {}
    /\ prov = <<>>
    /\ unmatched = 0
    /\ collect_end = None
    /\ tail_order = <<>>
    /\ fn_call \in {Some(c) : c \in Calls}
    /\ fn_ret = None

\* the call of fn is pending
Pending(fn) == IsSome(fn_call) /\ Unwrap(fn_call).fn = fn /\ fn_ret = None

Arg == Unwrap(fn_call).arg

Returns(v) == /\ fn_ret' = Some(v)
              /\ UNCHANGED <<main_vars, fn_call>>

\* lib.rs:154-183
CallIdentify ==
    /\ Pending("identify_packet_data_by_magic")
    /\ Returns(identify_packet_data_by_magic(Arg))

\* vorbis.rs:52-66
CallVorbisHeader ==
    /\ Pending("vorbis::read_header_ident")
    /\ Returns(vorbis_read_header_ident(Arg))

\* opus.rs:56-73
CallOpusHeader ==
    /\ Pending("opus::read_header_ident")
    /\ Returns(opus_read_header_ident(Arg))

\* theora.rs:34-55
CallTheoraHeader ==
    /\ Pending("theora::read_header_ident")
    /\ Returns(theora_read_header_ident(Arg))

\* lib.rs:145: seek_before_end(pck_rdr, 150 * 1024), both seeks succeeding
CallSeekSingle ==
    /\ Pending("get_absgp_of_last_packet:seek_before_end")
    /\ Returns(Ok(seek_before_end_pos(Arg, SingleWindow)))

\* lib.rs:311: seek_before_end(&mut pck_rdr, 200 * 1024), both seeks succeeding
CallSeekSkeleton ==
    /\ Pending("read_format:seek_before_end")
    /\ Returns(Ok(seek_before_end_pos(Arg, SkeletonWindow)))

CallNext ==
    \/ CallIdentify
    \/ CallVorbisHeader
    \/ CallOpusHeader
    \/ CallTheoraHeader
    \/ CallSeekSingle
    \/ CallSeekSkeleton

CallSpec == CallInit /\ [][CallNext]_vars

\* the call of fn has returned
Called(fn) == IsSome(fn_call) /\ Unwrap(fn_call).fn = fn /\ IsSome(fn_ret)

Ret == Unwrap(fn_ret)

(***************************************************************************)
(* Vocabulary of the properties.                                           *)
(***************************************************************************)
Magics == {vorbis_magic, opus_magic, theora_magic, speex_magic, skeleton_magic}

\* the payload is empty or has none of the five magics as prefix
NoPrefix(d) == \A m \in Magics : ~StartsWith(d, m)

Returned == pc = "done" /\ IsSome(result)
ReturnedOk == Returned /\ Unwrap(result).ok
ReturnedErr == Returned /\ ~Unwrap(result).ok

FirstFormat == Unwrap(id_inner)[2]
SinglePath == IsSome(id_inner) /\ FirstFormat \in {"Vorbis", "Opus"}
SkeletonPath == IsSome(id_inner) /\ FirstFormat = "Skeleton"

\* seek_before_end has returned Ok
SeekSucceeded == IsSome(num_packets)

HasLength(e) ==
    \/ e.fmt = "Vorbis" /\ IsSome(e.length_in_samples)
    \/ e.fmt = "Opus" /\ IsSome(e.length_in_48khz_samples)

NumUnknown(r) == Cardinality({i \in 1..Len(r) : r[i] = Unknown})

RecordedSerials == {s \in Serials : IsSome(recorded[s])}

\* the header payload and format of a recorded stream
HeaderOf(rec) == SliceFrom(rec.data, rec.id_inner[1])
FormatOf(rec) == rec.id_inner[2]

\* the identification header of a recorded stream parses
HeaderParses(rec) == parse_format(HeaderOf(rec), FormatOf(rec), None, FALSE).ok

\* every recorded stream is no Skeleton stream and its header parses
ValidRecorded ==
    \A s \in RecordedSerials :
      FormatOf(Unwrap(recorded[s])) # "Skeleton" /\ HeaderParses(Unwrap(recorded[s]))

\* the recorded streams are other streams than the first packet's
OtherStreams == IsSome(pck) /\ Unwrap(pck).stream_serial \notin RecordedSerials

\* entries of res by the phase that pushed them
EntriesOf(phase) == {i \in 1..Len(res) : prov[i].phase = phase}

\* the entry parse_format gives a recorded stream from the granule position gp
Expected(s, gp) ==
    parse_format(HeaderOf(Unwrap(recorded[s])), FormatOf(Unwrap(recorded[s])),
                 gp, FALSE).val

\* u64 values below 2^32, as integers
IsLow(u) == u[1] = 0 /\ u[2] = 0
ValLow(u) == u[3] * Limb + u[4]

\* pre_skip of the Opus header entry i of res was parsed from
PreSkipOf(i) ==
    opus_read_header_ident(
      IF prov[i].phase = "first"
      THEN SliceFrom(Unwrap(pck).data, Unwrap(id_inner)[1])
      ELSE HeaderOf(Unwrap(recorded[prov[i].serial]))).val.pre_skip

\* entries of res that are Opus and were given a granule position
OpusWithAbsgp == {i \in 1..Len(res) : res[i].fmt = "Opus" /\ IsSome(prov[i].src)}

(***************************************************************************)
(* C1.  As claimed: a Skeleton file with N >= 1 other streams recorded,    *)
(* each of recognized magic (no Skeleton) and valid header, all of whose   *)
(* last-flagged packets the tail scan reads, yields Ok with exactly N      *)
(* entries, each with its duration present.                                *)
(***************************************************************************)
C1_Pre ==
    /\ Returned
    /\ SkeletonPath
    /\ SeekSucceeded
    /\ ValidRecorded
    /\ tail_last = RecordedSerials

C1_ExactlyN_AllDurations ==
    (C1_Pre /\ RecordedSerials # {} /\ OtherStreams) =>
      /\ ReturnedOk
      /\ Len(Unwrap(result).val) = Cardinality(RecordedSerials)
      /\ \A i \in 1..Len(Unwrap(result).val) : HasLength(Unwrap(result).val[i])

\* C1, amended: what read_format then returns is Ok with 1 + U + N entries:
\* the Skeleton entry first, U Unknown entries, and one entry per recorded
\* stream pushed by the tail scan, of which every Vorbis and Opus one has its
\* length present (Theora, Speex, Skeleton and Unknown entries have none).
C1_SkeletonPlusUnknownPlusN ==
    C1_Pre =>
      /\ result = Some(Ok(res))
      /\ res[1] = [fmt |-> "Skeleton"]
      /\ Len(res) = 1 + NumUnknown(res) + Cardinality(RecordedSerials)
      /\ {prov[i].serial : i \in EntriesOf("tail")} = RecordedSerials
      /\ Cardinality(EntriesOf("tail")) = Cardinality(RecordedSerials)
      /\ \A i \in EntriesOf("tail") :
           res[i].fmt \in {"Vorbis", "Opus"} => HasLength(res[i])

C1_Witness ==
    /\ C1_Pre
    /\ OtherStreams
    /\ Cardinality(RecordedSerials) = 2
    /\ \E i, j \in EntriesOf("tail") : res[i].fmt = "Vorbis" /\ res[j].fmt = "Opus"

(***************************************************************************)
(* C2.  As claimed: in a Skeleton file where the tail scan never reads     *)
(* the last-flagged packet of exactly one recorded stream and reads that   *)
(* of every other, read_format returns Ok, that stream has an entry with   *)
(* its length absent, and every other entry is what its own header and     *)
(* last packet give.                                                       *)
(***************************************************************************)
C2_Pre ==
    /\ Returned
    /\ SkeletonPath
    /\ SeekSucceeded
    /\ Cardinality(RecordedSerials \ tail_last) = 1

C2_Concl ==
    /\ result = Some(Ok(res))
    /\ \A s \in RecordedSerials \ tail_last :
         /\ Cardinality({i \in 1..Len(res) :
                           prov[i].phase \in {"tail", "leftover"}
                           /\ prov[i].serial = s}) = 1
         /\ \E i \in EntriesOf("leftover") :
              /\ prov[i].serial = s
              /\ ~HasLength(res[i])
              /\ res[i] = Expected(s, None)
    /\ \A s \in tail_last :
         \E i \in EntriesOf("tail") :
           /\ prov[i].serial = s
           /\ res[i] = Expected(s, Some(Unwrap(prov[i].src).absgp_page))
    /\ \A i \in EntriesOf("tail") :
         res[i] = Expected(prov[i].serial, Some(Unwrap(prov[i].src).absgp_page))

C2_OneMissing_OthersUnaffected == C2_Pre => C2_Concl

\* C2, amended: the same, for recorded streams none of which is a Skeleton
\* stream and all of whose headers parse, and of what read_format returns.
C2_OneMissing_ValidHeaders == (C2_Pre /\ ValidRecorded) => C2_Concl

C2_Witness ==
    /\ C2_Pre /\ ValidRecorded
    /\ Cardinality(RecordedSerials) = 2
    /\ \E i \in EntriesOf("leftover") : res[i].fmt \in {"Vorbis", "Opus"}
    /\ \E i \in EntriesOf("tail") : HasLength(res[i])

(***************************************************************************)
(* C3.  As claimed: an error of the seek or of a read in step 2 of the     *)
(* Skeleton path is not propagated, read_format returns Ok (the headers    *)
(* of the streams still unresolved being valid).                           *)
(***************************************************************************)
PendingParses ==
    \A s \in Unwrap(io_err).pending : HeaderParses(Unwrap(recorded[s]))

C3_SeekAndReadErrorsSoft ==
    (/\ IsSome(io_err)
     /\ Unwrap(io_err).at \in {"skel_seek", "tail_scan"}
     /\ PendingParses
     /\ Returned) => ReturnedOk

\* C3, what the code does: only an error of a read in the tail scan is not
\* propagated (the scan stops, every stream still unresolved is finalized
\* without duration and, their headers parsing, read_format returns Ok with
\* the entries collected so far followed by those); an error of the seek,
\* under try! at lib.rs:311, is propagated as Err(ReadError).
C3_ReadErrorsSoft_SeekErrorFatal ==
    IsSome(io_err) =>
      LET e == Unwrap(io_err) IN
      /\ e.at = "skel_seek" => pc = "done" /\ result = Some(Err(ReadError))
      /\ e.at = "tail_scan" =>
           /\ pc \in {"leftovers", "done"}
           /\ SubSeq(res, 1, Len(e.res)) = e.res
           /\ \A i \in (Len(e.res) + 1)..Len(res) :
                /\ prov[i].phase = "leftover"
                /\ prov[i].serial \in e.pending
                /\ ~HasLength(res[i])
           /\ (pc = "done" /\ PendingParses) =>
                /\ result = Some(Ok(res))
                /\ Len(res) = Len(e.res) + Cardinality(e.pending)
                /\ {prov[i].serial : i \in (Len(e.res) + 1)..Len(res)} = e.pending

C3_Witness ==
    /\ IsSome(io_err)
    /\ Unwrap(io_err).at = "tail_scan"
    /\ Len(Unwrap(io_err).res) >= 2
    /\ Unwrap(io_err).pending # {}
    /\ ReturnedOk

(***************************************************************************)
(* C4.  As claimed: once a packet recorded in the collect phase, the first *)
(* of another stream, carries the Skeleton magic, read_format never        *)
(* returns Ok.                                                             *)
(***************************************************************************)
NestedSkeleton ==
    /\ OtherStreams
    /\ \E s \in RecordedSerials : FormatOf(Unwrap(recorded[s])) = "Skeleton"

C4_NestedSkeletonNeverOk == NestedSkeleton => ~ReturnedOk

(***************************************************************************)
(* C5.  In the single-stream path an error of the seek or of a read of the *)
(* tail scan, the end of the stream included, makes read_format return     *)
(* Err, and no list.                                                       *)
(***************************************************************************)
C5_SingleStreamErrorsFatal ==
    (IsSome(io_err) /\ Unwrap(io_err).at \in {"single_seek", "single_scan"}) =>
      /\ SinglePath
      /\ ReturnedErr
      /\ Unwrap(result).err \in {ReadError, UnrecognizedFormat}
      /\ res = <<>>

C5_Witness ==
    /\ IsSome(io_err)
    /\ Unwrap(io_err).at = "single_scan"
    /\ IsSome(scan_pck)
    /\ ~HasPacket
    /\ ReturnedErr

(***************************************************************************)
(* C6.  As claimed: get_absgp_of_last_packet never returns a granule       *)
(* position of a packet of another stream than the target's, the stream    *)
(* of the first packet.                                                    *)
(***************************************************************************)
C6_OnlyTargetStream ==
    IsSome(last_packet_absgp) =>
      Unwrap(scan_pck).stream_serial = Unwrap(pck).stream_serial

\* C6, amended: get_absgp_of_last_packet has no target stream.  It returns
\* the granule position of the first packet read after the seek that has
\* the last_packet flag, of whatever stream; when the source fails or ends
\* before such a packet it returns Err (ReadError at the end of the stream),
\* and so does read_format: there is no soft "not found".
C6_FirstLastFlaggedOrErr ==
    /\ (pc = "single_scan" /\ IsSome(scan_pck)) => ~Unwrap(scan_pck).last_packet
    /\ IsSome(last_packet_absgp) =>
         /\ IsSome(scan_pck)
         /\ Unwrap(scan_pck).last_packet
         /\ last_packet_absgp = Some(Unwrap(scan_pck).absgp_page)
    /\ (SinglePath /\ pc \notin {"single_seek", "single_scan"}
        /\ ~IsSome(last_packet_absgp)) =>
         /\ ReturnedErr
         /\ IsSome(io_err)
         /\ (Unwrap(io_err).at = "single_scan" /\ ~HasPacket) =>
              result = Some(Err(ReadError))

C6_Witness ==
    /\ IsSome(last_packet_absgp)
    /\ Unwrap(scan_pck).stream_serial # Unwrap(pck).stream_serial
    /\ pos > 2
    /\ ReturnedOk

(***************************************************************************)
(* C7.  As claimed: whenever an entry for the stream with serial s has     *)
(* its length present, the length comes from the granule position of a     *)
(* packet that has the last_packet flag and the serial s.                  *)
(***************************************************************************)
DerivedFrom(e, p, pre_skip) ==
    \/ e.fmt = "Vorbis" /\ e.length_in_samples = Some(p.absgp_page)
    \/ e.fmt = "Opus"
       /\ e.length_in_48khz_samples = Some(U64SubU16(p.absgp_page, pre_skip).val)

C7_LengthFromLastPacketOfSameStream ==
    ReturnedOk =>
      \A i \in 1..Len(res) :
        HasLength(res[i]) =>
          /\ IsSome(prov[i].src)
          /\ Unwrap(prov[i].src).last_packet
          /\ Unwrap(prov[i].src).stream_serial = prov[i].serial

\* C7, amended: the length comes from the granule position of a packet that
\* has the last_packet flag; that packet has the serial s for the entries of
\* the Skeleton path, and for the entry of the single-stream path it is the
\* first last-flagged packet read after the seek, of whatever serial.
C7_LengthFromLastPacket ==
    \A i \in 1..Len(res) :
      HasLength(res[i]) =>
        /\ IsSome(prov[i].src)
        /\ Unwrap(prov[i].src).last_packet
        /\ prov[i].phase \in {"first", "tail"}
        /\ prov[i].phase = "tail" =>
             Unwrap(prov[i].src).stream_serial = prov[i].serial
        /\ prov[i].phase = "first" => prov[i].src = scan_pck
        /\ DerivedFrom(res[i], Unwrap(prov[i].src),
                       IF res[i].fmt = "Opus" THEN PreSkipOf(i) ELSE 0)

C7_Witness ==
    /\ ReturnedOk
    /\ \E i, j \in EntriesOf("tail") :
         /\ prov[i].serial # prov[j].serial
         /\ HasLength(res[i]) /\ HasLength(res[j])

(***************************************************************************)
(* C8.  An Opus stream of valid header with pre_skip p whose recovered     *)
(* granule position g is at least p has length_in_48khz_samples            *)
(* Some(g - p), as first stream and as stream of a Skeleton file.          *)
(***************************************************************************)
C8_OpusLengthIsAbsgpMinusPreSkip ==
    \A i \in OpusWithAbsgp :
      LET g == Unwrap(prov[i].src).absgp_page
          p == PreSkipOf(i)
      IN  (IsLow(g) /\ ValLow(g) >= p) =>
            res[i].length_in_48khz_samples = Some(U64(ValLow(g) - p))

C8_Witness ==
    /\ ReturnedOk
    /\ \E i \in OpusWithAbsgp :
         /\ prov[i].phase = "tail"
         /\ PreSkipOf(i) = 312
         /\ Unwrap(prov[i].src).absgp_page = U64(48312)
         /\ res[i] = [fmt |-> "Opus", output_channels |-> 2,
                      length_in_48khz_samples |-> Some(U64(48000))]

(***************************************************************************)
(* C9.  As claimed: for an Opus stream whose recovered granule position is *)
(* less than pre_skip, read_format neither panics nor reports a length     *)
(* (the wrapped difference).                                               *)
(***************************************************************************)
C9_NoOpusUnderflow ==
    /\ pc # "panicked"
    /\ \A i \in OpusWithAbsgp :
         LET g == Unwrap(prov[i].src).absgp_page
         IN  (IsLow(g) /\ ValLow(g) < PreSkipOf(i)) =>
               ~IsSome(res[i].length_in_48khz_samples)

(***************************************************************************)
(* C10.  When the payload of the first packet is empty or has none of the  *)
(* five magics as prefix, read_format returns Ok(<<Unknown>>) having read  *)
(* one packet and sought nowhere.                                          *)
(***************************************************************************)
C10_UnknownFirstPacket ==
    (IsSome(pck) /\ NoPrefix(Unwrap(pck).data)) =>
      /\ pc = "done"
      /\ result = Some(Ok(<<Unknown>>))
      /\ seeks = 0
      /\ ~SeekSucceeded
      /\ pos = 2
      /\ io_err = None

C10_Witness ==
    /\ IsSome(pck)
    /\ Unwrap(pck).data = Empty
    /\ result = Some(Ok(<<Unknown>>))

(***************************************************************************)
(* C11.  When the first packet is a valid Vorbis identification header     *)
(* (version 0, channel count c, sample rate r) and the tail scan reached a *)
(* last-flagged packet of granule position g, read_format returns Ok with  *)
(* exactly one entry, Vorbis{channels = c, sample_rate = r,                *)
(* length_in_samples = Some(g)}.                                           *)
(***************************************************************************)
\* the bytes after the magic of the first packet
FirstHeader == SliceFrom(Unwrap(pck).data, Len(vorbis_magic))

C11_Pre ==
    /\ pc = "done"
    /\ IsSome(id_inner)
    /\ FirstFormat = "Vorbis"
    /\ IsSome(last_packet_absgp)
    /\ Len(FirstHeader) >= 9
    /\ \A i \in 1..4 : FirstHeader[i] = 0

\* C11: the one entry returned is the Vorbis entry of that header and of the
\* granule position of the last-flagged packet
C11_VorbisSingleStream ==
    C11_Pre =>
      /\ Unwrap(scan_pck).last_packet
      /\ result = Some(Ok(<<[fmt |-> "Vorbis",
                             channels |-> FirstHeader[5],
                             sample_rate |-> FirstHeader[6] + 256 * FirstHeader[7]
                                             + 65536 * FirstHeader[8]
                                             + 16777216 * FirstHeader[9],
                             length_in_samples |->
                               Some(Unwrap(scan_pck).absgp_page)]>>))

C11_Witness ==
    /\ C11_Pre
    /\ ReturnedOk
    /\ Len(Unwrap(result).val) = 1
    /\ Unwrap(result).val[1].channels = 2
    /\ Unwrap(result).val[1].sample_rate = 44100
    /\ Unwrap(result).val[1].length_in_samples = Some(U64(48312))

(***************************************************************************)
(* C12.  identify_packet_data_by_magic is total and unambiguous: it        *)
(* returns no match (always for the empty sequence) or the one codec tag   *)
(* whose magic is a prefix of the input; no input has two of the five      *)
(* magics as prefix; the offset returned is the length of the matched      *)
(* magic (Vorbis 7, Opus 8, Theora 7, Speex 8, Skeleton 8) and never       *)
(* exceeds the length of the input.                                        *)
(***************************************************************************)
\* codec tag, magic, length of the magic
MagicTable == {<<"Vorbis", vorbis_magic, 7>>, <<"Opus", opus_magic, 8>>,
               <<"Theora", theora_magic, 7>>, <<"Speex", speex_magic, 8>>,
               <<"Skeleton", skeleton_magic, 8>>}

C12_MagicDispatchTotal ==
    Called("identify_packet_data_by_magic") =>
      /\ Cardinality({t \in MagicTable : StartsWith(Arg, t[2])}) <= 1
      /\ Arg = <<>> => Ret = None
      /\ (\A t \in MagicTable : ~StartsWith(Arg, t[2])) <=> Ret = None
      /\ \A t \in MagicTable :
           StartsWith(Arg, t[2]) =>
             /\ Ret = Some(<<t[3], t[1]>>)
             /\ t[3] = Len(t[2])
             /\ t[3] <= Len(Arg)

C12_Witness ==
    /\ Called("identify_packet_data_by_magic")
    /\ StartsWith(Arg, skeleton_magic)
    /\ Len(Arg) > Len(skeleton_magic)
    /\ Ret = Some(<<8, "Skeleton">>)

(***************************************************************************)
(* C13.  A Vorbis header whose 4-byte little-endian version is not 0 fails *)
(* with UnrecognizedFormat; an Opus header whose version byte is >= 16     *)
(* fails with UnrecognizedFormat; for an Opus version byte < 16 and at     *)
(* least 4 bytes, the channel count is byte 1 and pre_skip the             *)
(* little-endian value of bytes 2..3 (bytes counted from 0).               *)
(***************************************************************************)
C13_VersionValidation ==
    /\ (Called("vorbis::read_header_ident") /\ Len(Arg) >= 4
          /\ \E i \in 1..4 : Arg[i] # 0)
         => Ret = Err(UnrecognizedFormat)
    /\ (Called("opus::read_header_ident") /\ Len(Arg) >= 1 /\ Arg[1] >= 16)
         => Ret = Err(UnrecognizedFormat)
    /\ (Called("opus::read_header_ident") /\ Len(Arg) >= 4 /\ Arg[1] < 16)
         => Ret = Ok([output_channels |-> Arg[2],
                      pre_skip |-> Arg[3] + 256 * Arg[4]])

C13_Witness ==
    /\ Called("opus::read_header_ident")
    /\ Arg = <<15, 2, 56, 1>>
    /\ Ret = Ok([output_channels |-> 2, pre_skip |-> 312])

(***************************************************************************)
(* C14.  As claimed: a payload with fewer bytes than the parser consumes   *)
(* (Vorbis 9, Opus 4, Theora 13) fails with ReadError and never with       *)
(* UnrecognizedFormat; a payload that is long enough with an invalid       *)
(* version fails with UnrecognizedFormat.                                  *)
(***************************************************************************)
VorbisVersionBad(d) == \E i \in 1..4 : d[i] # 0

C14_ShortIsAlwaysReadError ==
    /\ (Called("vorbis::read_header_ident") /\ Len(Arg) < 9) => Ret = Err(ReadError)
    /\ (Called("opus::read_header_ident") /\ Len(Arg) < 4) => Ret = Err(ReadError)
    /\ (Called("theora::read_header_ident") /\ Len(Arg) < 13) => Ret = Err(ReadError)
    /\ (Called("vorbis::read_header_ident") /\ Len(Arg) >= 9 /\ VorbisVersionBad(Arg))
         => Ret = Err(UnrecognizedFormat)
    /\ (Called("opus::read_header_ident") /\ Len(Arg) >= 4 /\ Arg[1] >= 16)
         => Ret = Err(UnrecognizedFormat)

\* C14, amended: a payload too short for the version field (Vorbis 4 bytes,
\* Opus 1) fails with ReadError; once the version field is there, an invalid
\* version fails with UnrecognizedFormat whatever the length, and a valid
\* version with fewer bytes than the header has (Vorbis 9, Opus 4) fails with
\* ReadError; the Theora parser checks no version: it fails with ReadError
\* below 13 bytes and never with UnrecognizedFormat.
C14_VersionBeforeLength ==
    /\ Called("vorbis::read_header_ident") =>
         /\ Len(Arg) < 4 => Ret = Err(ReadError)
         /\ (Len(Arg) >= 4 /\ VorbisVersionBad(Arg)) => Ret = Err(UnrecognizedFormat)
         /\ (Len(Arg) \in 4..8 /\ ~VorbisVersionBad(Arg)) => Ret = Err(ReadError)
         /\ (Len(Arg) >= 9 /\ ~VorbisVersionBad(Arg)) => Ret.ok
    /\ Called("opus::read_header_ident") =>
         /\ Len(Arg) < 1 => Ret = Err(ReadError)
         /\ (Len(Arg) >= 1 /\ Arg[1] >= 16) => Ret = Err(UnrecognizedFormat)
         /\ (Len(Arg) \in 1..3 /\ Arg[1] < 16) => Ret = Err(ReadError)
         /\ (Len(Arg) >= 4 /\ Arg[1] < 16) => Ret.ok
    /\ Called("theora::read_header_ident") =>
         /\ Len(Arg) < 13 => Ret = Err(ReadError)
         /\ Len(Arg) >= 13 => Ret.ok

C14_Witness ==
    /\ Called("vorbis::read_header_ident")
    /\ Len(Arg) = 5
    /\ VorbisVersionBad(Arg)
    /\ Ret = Err(UnrecognizedFormat)

(***************************************************************************)
(* C15.  Order of the list the Skeleton path returns: the Unknown entries  *)
(* of the collect phase come before the entries finalized in the tail      *)
(* scan, those before the leftover entries (length absent), and the        *)
(* tail-scan entries are in the order in which their last-flagged packets  *)
(* were read.                                                              *)
(***************************************************************************)
C15_OutputOrder ==
    (SkeletonPath /\ ReturnedOk) =>
      LET r == Unwrap(result).val
          u == unmatched
          t == Len(tail_order)
      IN  /\ Len(r) >= 1 + u + t
          /\ \A k \in 1..u : r[1 + k] = Unknown
          /\ \A k \in 1..t :
               r[1 + u + k] = Expected(tail_order[k].stream_serial,
                                       Some(tail_order[k].absgp_page))
          /\ \A i \in (2 + u + t)..Len(r) :
               /\ ~HasLength(r[i])
               /\ \E s \in RecordedSerials \ tail_last : r[i] = Expected(s, None)

C15_Witness ==
    /\ SkeletonPath
    /\ ReturnedOk
    /\ Len(tail_order) = 2
    /\ tail_order[1].stream_serial > tail_order[2].stream_serial
    /\ res[2] # res[3]

(***************************************************************************)
(* C16.  Exactly-once finalization in the Skeleton path: when read_format  *)
(* returns Ok, every recorded serial has exactly one entry (from the tail  *)
(* scan with a granule position, or as a leftover without one), so the     *)
(* list has 1 + unmatched first packets + recorded serials entries; and a  *)
(* packet of the tail scan that is not the last-flagged packet of a        *)
(* recorded serial adds no entry and leaves the map unchanged.             *)
(***************************************************************************)
\* entries of res finalized for the recorded serial s
FinalizedFor(s) == {i \in 1..Len(res) : /\ prov[i].phase \in {"tail", "leftover"}
                                        /\ prov[i].serial = s}

C16_OncePerSerial ==
    (SkeletonPath /\ ReturnedOk) =>
      /\ Unwrap(result).val = res
      /\ Len(res) = 1 + unmatched + Cardinality(RecordedSerials)
      /\ \A s \in RecordedSerials :
           /\ Cardinality(FinalizedFor(s)) = 1
           /\ \A i \in FinalizedFor(s) :
                IF s \in tail_last
                THEN prov[i].phase = "tail" /\ IsSome(prov[i].src)
                ELSE prov[i].phase = "leftover" /\ ~HasLength(res[i])

\* a step of the tail scan that reads a packet other than the last-flagged
\* packet of a recorded serial
C16_Skips ==
    /\ pc = "tail_scan"
    /\ pos' = pos + 1
    /\ tail_order' = tail_order

\* C16: every recorded serial is finalized exactly once, and the packets the
\* tail scan skips change neither the list nor the map
C16_ExactlyOnce ==
    /\ []C16_OncePerSerial
    /\ [][C16_Skips => (res' = res /\ streams' = streams)]_vars

C16_Witness ==
    /\ SkeletonPath
    /\ ReturnedOk
    /\ Cardinality(RecordedSerials) = 2
    /\ Cardinality(tail_last) = 1
    /\ Len(res) = 3

(***************************************************************************)
(* C17.  In the Skeleton path the header of a recorded sub-stream is       *)
(* parsed only at its finalization, and a parse failure there is fatal:    *)
(* read_format returns that error and no list, whatever was collected.     *)
(***************************************************************************)
\* the recorded streams whose header does not parse
Unparsable == {s \in RecordedSerials : ~HeaderParses(Unwrap(recorded[s]))}

\* a recorded Skeleton stream whose last packet the tail scan read
NestedFound == \E s \in tail_last : FormatOf(Unwrap(recorded[s])) = "Skeleton"

C17_ParseFailureFatal ==
    /\ (SkeletonPath /\ ReturnedOk) => Unparsable = {}
    /\ (SkeletonPath /\ ReturnedErr /\ SeekSucceeded /\ ~NestedFound) =>
         \E s \in Unparsable :
           Unwrap(result) = parse_format(HeaderOf(Unwrap(recorded[s])),
                                         FormatOf(Unwrap(recorded[s])), None, FALSE)
    /\ (SkeletonPath /\ pc \in {"collect", "skel_seek"}) => ~Returned

C17_Witness ==
    /\ SkeletonPath
    /\ ReturnedErr
    /\ SeekSucceeded
    /\ io_err = None
    /\ Len(res) >= 2
    /\ Unparsable # {}
    /\ ~NestedFound

(***************************************************************************)
(* C18.  The collect phase ends only at a packet with the Skeleton         *)
(* stream's serial and the last_packet flag; if the source fails or ends   *)
(* before, read_format returns Err and no list, even when streams were     *)
(* recorded or Unknown entries emitted.                                    *)
(***************************************************************************)
C18_CollectEndsAtSkeletonLast ==
    /\ IsSome(collect_end) =>
         /\ Unwrap(collect_end).stream_serial = Unwrap(pck).stream_serial
         /\ Unwrap(collect_end).last_packet
    /\ (SkeletonPath /\ (pc \in {"skel_seek", "tail_scan", "leftovers"} \/ ReturnedOk))
         => IsSome(collect_end)
    /\ (IsSome(io_err) /\ Unwrap(io_err).at = "collect") =>
         /\ ReturnedErr
         /\ Unwrap(result).err \in {ReadError, UnrecognizedFormat}
         /\ collect_end = None

C18_Witness ==
    /\ IsSome(io_err)
    /\ Unwrap(io_err).at = "collect"
    /\ ~HasPacket
    /\ ReturnedErr
    /\ unmatched >= 1
    /\ StreamEntries # {}

(***************************************************************************)
(* C19.  seek_before_end with window W on a source of length L positions   *)
(* the reader at max(0, L - W), never before the start: at 0 when L <= W,  *)
(* else at L - W; W is 150*1024 for the single-stream lookup and 200*1024  *)
(* for the Skeleton tail scan.                                             *)
(***************************************************************************)
C19_SeekPosition ==
    /\ Called("get_absgp_of_last_packet:seek_before_end") =>
         /\ Ret.ok
         /\ Ret.val >= 0
         /\ Ret.val = IF Arg <= 153600 THEN 0 ELSE Arg - 153600
    /\ Called("read_format:seek_before_end") =>
         /\ Ret.ok
         /\ Ret.val >= 0
         /\ Ret.val = IF Arg <= 204800 THEN 0 ELSE Arg - 204800

C19_Witness ==
    /\ Called("read_format:seek_before_end")
    /\ Arg > 204800
    /\ Ret = Ok(Arg - 204800)

(***************************************************************************)
(* C20.  Termination: on a finite packet source read_format eventually     *)
(* returns Ok or Err.                                                      *)
(***************************************************************************)
C20_EventuallyReturns == <>Returned

\* C20, what does hold: read_format eventually returns or panics
C20_ReturnsOrPanics == <>(Returned \/ pc = "panicked")
====
